---- MODULE Spec2Model ----
(***************************************************************************)
(* A model of es1d/pushers.py: the right-hand-side evaluators of a         *)
(* one-dimensional electrostatic fluid model (spectral derivative, Poisson  *)
(* solve, drive field, the four steppers) and the dispersion table their    *)
(* closure filters are interpolated from.                                   *)
(*                                                                          *)
(* Numbers.  A real number is an exact rational [n, d] with d > 0, in       *)
(* lowest terms.  d = 0 is a non-finite float (inf or nan): it absorbs      *)
(* every operation, which is what + - * / interp and the transforms do to   *)
(* it on the paths of this file.  d = -1 is a finite value the exact        *)
(* arithmetic cannot name (see fft).  A complex number is a pair [re, im].  *)
(*                                                                          *)
(* Arrays.  A one-dimensional array is a sequence; an array expression      *)
(* evaluates to [ok, v]: ok = FALSE is the exception numpy/jax raise for    *)
(* shapes that do not broadcast or a transform of zero points.              *)
(*                                                                          *)
(* Units.  Positions and times are counted in quarter turns (pi/2), so      *)
(* that sin of an integer phase is exact.                                   *)
(***************************************************************************)
EXTENDS Integers, Sequences, FiniteSets, TLC

\* ---------------------------------------------------------------- bounds
\* Largest length of a grid, of a field and of kx.
MaxN == 5

\* ---------------------------------------------------------------- rationals
RECURSIVE Gcd(_, _)
Gcd(a, b) == IF b = 0 THEN a ELSE Gcd(b, a % b)

Abs(i) == IF i < 0 THEN -i ELSE i

NonFinite == [n |-> 0, d |-> 0]
Untracked == [n |-> 0, d |-> -1]

\* The rational p/q, q # 0, in lowest terms with a positive denominator.
Q(p, q) ==
    LET g == Gcd(Abs(p), Abs(q))
        s == IF q < 0 THEN -1 ELSE 1
    IN  [n |-> (s * p) \div g, d |-> (s * q) \div g]

Z(i) == [n |-> i, d |-> 1]
Zero == Z(0)
One == Z(1)

\* The operand that makes a result non-finite or untracked, if there is one.
Bad(a, b) == IF a.d = 0 THEN a ELSE IF b.d = 0 THEN b ELSE IF a.d < 0 THEN a ELSE b
Good(a, b) == a.d > 0 /\ b.d > 0

RAdd(a, b) ==
    IF Good(a, b)
    THEN LET g == Gcd(a.d, b.d)
         IN  Q(a.n * (b.d \div g) + b.n * (a.d \div g), (a.d \div g) * b.d)
    ELSE Bad(a, b)
RNeg(a) == IF a.d > 0 THEN [n |-> -a.n, d |-> a.d] ELSE a
RSub(a, b) == RAdd(a, RNeg(b))
RMul(a, b) ==
    IF Good(a, b)
    THEN LET g == Gcd(Abs(a.n), b.d)
             h == Gcd(Abs(b.n), a.d)
         IN  Q((a.n \div g) * (b.n \div h), (a.d \div h) * (b.d \div g))
    ELSE Bad(a, b)
\* x / 0 is inf or nan in floating point: non-finite.
RDiv(a, b) ==
    IF Good(a, b)
    THEN (IF b.n = 0 THEN NonFinite ELSE RMul(a, Q(b.d, b.n)))
    ELSE Bad(a, b)
RAbs(a) == IF a.d > 0 THEN [n |-> Abs(a.n), d |-> a.d] ELSE a
\* Comparisons with a nan are false.
RLt(a, b) == Good(a, b) /\ a.n * b.d < b.n * a.d
RLe(a, b) == Good(a, b) /\ a.n * b.d <= b.n * a.d

\* The square root of a rational that is a perfect square; the grids of
\* this model are chosen so that sqrt is only taken of such numbers.
ISqrt(i) == IF \E r \in 0..i : r * r = i THEN CHOOSE r \in 0..i : r * r = i ELSE -1
RSqrt(a) ==
    IF a.d <= 0 THEN a
    ELSE IF a.n < 0 THEN NonFinite
    ELSE IF ISqrt(a.n) < 0 \/ ISqrt(a.d) < 0 THEN Untracked
    ELSE Q(ISqrt(a.n), ISqrt(a.d))

\* ---------------------------------------------------------------- complex
Cx(re, im) == [re |-> re, im |-> im]
CZero == Cx(Zero, Zero)
CAdd(a, b) == Cx(RAdd(a.re, b.re), RAdd(a.im, b.im))
\* A real times a complex number.
CScale(r, a) == Cx(RMul(r, a.re), RMul(r, a.im))
\* i^p times a.
CRot(p, a) ==
    CASE p % 4 = 0 -> a
      [] p % 4 = 1 -> Cx(RNeg(a.im), a.re)
      [] p % 4 = 2 -> Cx(RNeg(a.re), RNeg(a.im))
      [] OTHER     -> Cx(a.im, RNeg(a.re))

\* ---------------------------------------------------------------- arrays
Ok(v) == [ok |-> TRUE, v |-> v]
Err == [ok |-> FALSE, v |-> << >>]

\* numpy broadcasting of two one-dimensional shapes; 0 when they do not
\* broadcast (the operation raises).
BLen(a, b) == IF a = b \/ b = 1 THEN a ELSE IF a = 1 THEN b ELSE 0
At(v, j) == IF Len(v) = 1 THEN v[1] ELSE v[j]

\* The scalar operation of an elementwise array operation.
Apply(op, a, b) ==
    CASE op = "+" -> RAdd(a, b)
      [] op = "-" -> RSub(a, b)
      [] op = "*" -> RMul(a, b)
      [] op = "/" -> RDiv(a, b)
      [] OTHER    -> CScale(a, b)

\* An elementwise binary operation on two array results.
Zip(op, A, B) ==
    IF ~A.ok \/ ~B.ok \/ BLen(Len(A.v), Len(B.v)) = 0 THEN Err
    ELSE Ok([j \in 1..BLen(Len(A.v), Len(B.v)) |-> Apply(op, At(A.v, j), At(B.v, j))])

AAdd(A, B) == Zip("+", A, B)
ASub(A, B) == Zip("-", A, B)
AMul(A, B) == Zip("*", A, B)
ADiv(A, B) == Zip("/", A, B)
ANeg(A) == IF ~A.ok THEN Err ELSE Ok([j \in 1..Len(A.v) |-> RNeg(A.v[j])])
AAbs(A) == IF ~A.ok THEN Err ELSE Ok([j \in 1..Len(A.v) |-> RAbs(A.v[j])])
\* A scalar times an array.
AScale(r, A) == IF ~A.ok THEN Err ELSE Ok([j \in 1..Len(A.v) |-> RMul(r, A.v[j])])
\* A real array times a complex array.
ACScale(A, S) == Zip("filter", A, S)
\* 1j times a complex array.
ATimesI(S) == IF ~S.ok THEN Err ELSE Ok([j \in 1..Len(S.v) |-> CRot(1, S.v[j])])
AReal(S) == IF ~S.ok THEN Err ELSE Ok([j \in 1..Len(S.v) |-> S.v[j].re])

Const(c, len) == [j \in 1..len |-> c]
IsConst(v) == \A j \in 1..Len(v) : v[j] = v[1]
AllZero(v) == \A j \in 1..Len(v) : v[j] = Zero

\* ---------------------------------------------------------------- transforms
RECURSIVE RSum(_, _)
RSum(f, k) == IF k = 0 THEN Zero ELSE RAdd(RSum(f, k - 1), f[k])
RECURSIVE CSum(_, _)
CSum(f, k) == IF k = 0 THEN CZero ELSE CAdd(CSum(f, k - 1), f[k])

\* The roots of unity of a length-len transform are powers of i exactly
\* when len divides 4; then the transform is exact over the rationals.
ExactLen(len) == len \in {1, 2, 4}

\* jnp.fft.fft of a real array: X[k] = sum_j x[j] exp(-2 pi i j k / N).
\* A constant array has a spectrum with the DC entry alone, on every grid.
\* Another array on a grid whose roots of unity are irrational has no exact
\* spectrum: its entries are finite but untracked.
fft(A) ==
    IF ~A.ok THEN Err
    ELSE LET x == A.v
             N == Len(x)
         IN  IF IsConst(x)
             THEN Ok([k \in 1..N |-> CScale(x[1], IF k = 1 THEN Cx(Z(N), Zero) ELSE CZero)])
             ELSE IF ExactLen(N)
             THEN Ok([k \in 1..N |->
                        CSum([j \in 1..N |->
                                CRot(4 - (((j - 1) * (k - 1) * (4 \div N)) % 4),
                                     Cx(x[j], Zero))], N)])
             ELSE Ok([k \in 1..N |-> CScale(RSum(x, N), Cx(Untracked, Untracked))])

OnlyDC(s) == \A k \in 2..Len(s) : s[k] = CZero

\* jnp.fft.ifft: x[j] = (1/N) sum_k X[k] exp(+2 pi i j k / N).
ifft(S) ==
    IF ~S.ok THEN Err
    ELSE LET s == S.v
             N == Len(s)
         IN  IF OnlyDC(s)
             THEN Ok([j \in 1..N |-> CScale(Q(1, N), s[1])])
             ELSE IF ExactLen(N)
             THEN Ok([j \in 1..N |->
                        CScale(Q(1, N),
                               CSum([k \in 1..N |->
                                       CRot(((j - 1) * (k - 1) * (4 \div N)) % 4, s[k])],
                                    N))])
             ELSE Ok([j \in 1..N |-> LET t == CSum(s, N)
                                      IN  CScale(RAdd(t.re, t.im), Cx(Untracked, Untracked))])

\* jnp.fft.rfft: the first N div 2 + 1 entries of the spectrum.
rfft(A) ==
    IF ~A.ok THEN Err
    ELSE LET F == fft(A) IN Ok(SubSeq(F.v, 1, (Len(A.v) \div 2) + 1))

Conj(a) == Cx(a.re, RNeg(a.im))

\* jnp.fft.irfft with no length given: m spectrum entries give n = 2(m-1)
\* real points, the inverse transform of the Hermitian completion (the
\* imaginary parts of the DC and Nyquist entries drop out).  It raises for
\* n = 0.
irfft(S) ==
    IF ~S.ok THEN Err
    ELSE LET s == S.v
             m == Len(s)
             n == 2 * (m - 1)
         IN  IF n = 0 THEN Err
             ELSE AReal(ifft(Ok([k \in 1..n |->
                                   IF k <= m THEN s[k] ELSE Conj(s[n - k + 2])])))

\* ---------------------------------------------------------------- pushers.py
\* gradient without the forward transform: real(ifft(1j * kx * arr)).
gradient_NoForward(arr, kx) ==
    AReal(ifft(ATimesI(ACScale(kx, IF ~arr.ok THEN Err
                                   ELSE Ok([j \in 1..Len(arr.v) |-> Cx(arr.v[j], Zero)])))))

\* def gradient(arr, kx): real(ifft(1j * kx * fft(arr)))
gradient(arr, kx) == AReal(ifft(ATimesI(ACScale(kx, fft(arr)))))

\* PoissonSolver.__call__: real(ifft(1j * one_over_kx * fft(dn)))
PoissonSolver_call(self, dn) ==
    AReal(ifft(ATimesI(ACScale(Ok(self.one_over_kx), fft(dn)))))

\* DensityStepper.__call__: -u * gradient(n) - n * gradient(u)
DensityStepper_call(self, n, u) ==
    ASub(AMul(ANeg(u), gradient(n, Ok(self.kx))), AMul(n, gradient(u, Ok(self.kx))))

\* VelocityStepper.landau_damping_term: real(irfft(wis * rfft(u)))
landau_damping_term(self, u) == irfft(ACScale(Ok(self.wis), rfft(u)))

\* VelocityStepper.restoring_force_term: real(irfft(wr_corr * rfft(g)))
restoring_force_term(self, gradp_over_nm) ==
    irfft(ACScale(Ok(self.wr_corr), rfft(gradp_over_nm)))

\* VelocityStepper.__call__
VelocityStepper_call(self, n, u, p_over_m, q_over_m_times_e, delta) ==
    AAdd(ASub(ASub(AMul(ANeg(u), gradient(u, Ok(self.kx))),
                   restoring_force_term(self, ADiv(gradient(p_over_m, Ok(self.kx)), n))),
              q_over_m_times_e),
         ADiv(landau_damping_term(self, u), AAdd(Ok(<<One>>), AMul(delta, delta))))

\* EnergyStepper.__call__: n and q_over_m_times_e are not read.
EnergyStepper_call(self, n, u, p_over_m, q_over_m_times_e) ==
    ASub(AMul(ANeg(u), gradient(p_over_m, Ok(self.kx))),
         AMul(AScale(self.gamma, p_over_m), gradient(u, Ok(self.kx))))

\* The tuned coefficients of ParticleTrapper.__call__.
TrapAdvection == Q(3757, 1000)
TrapForcing == Z(100)
TrapRelaxation == Q(1, 1000)

\* The rectified forcing term 100 * abs(irfft(rfft(e) * wis)).
trap_forcing_term(self, e) ==
    AScale(TrapForcing, AAbs(irfft(ACScale(Ok(self.wis), rfft(e)))))

\* ParticleTrapper.__call__
ParticleTrapper_call(self, e, delta) ==
    ASub(AAdd(AScale(RNeg(TrapAdvection), gradient(delta, Ok(self.kx))),
              trap_forcing_term(self, e)),
         AScale(TrapRelaxation, delta))

\* ---------------------------------------------------------------- drive field
\* jnp.tanh is transcendental; the model keeps what the code relies on: an
\* odd, strictly increasing map of the reals into (-1, 1), one value per
\* argument.  x / (1 + |x|) is such a map with rational values.
tanh(x) == RDiv(x, RAdd(One, RAbs(x)))

\* sin of an integer number of quarter turns.
sin(q) == Z(<<0, 1, 0, -1>>[(q % 4) + 1])

\* get_envelope with the two edges added instead of subtracted.
get_envelope_Sum(p_wL, p_wR, p_L, p_R, ax) ==
    RMul(Q(1, 2), RAdd(tanh(RDiv(RSub(ax, p_L), p_wL)), tanh(RDiv(RSub(ax, p_R), p_wR))))

\* def get_envelope(p_wL, p_wR, p_L, p_R, ax), at one point ax.
get_envelope(p_wL, p_wR, p_L, p_R, ax) ==
    RMul(Q(1, 2), RSub(tanh(RDiv(RSub(ax, p_L), p_wL)), tanh(RDiv(RSub(ax, p_R), p_wR))))

\* Driver.__call__(this_pulse, current_time): the pulse's fields and the
\* time are integers, xax is an array of integers.
Driver_call(self, this_pulse, current_time) ==
    LET kk == this_pulse.k0
        ww == this_pulse.w0
        dw == this_pulse.dw0
        t_L == RSub(Z(this_pulse.t_c), RMul(Z(this_pulse.t_w), Q(1, 2)))
        t_R == RAdd(Z(this_pulse.t_c), RMul(Z(this_pulse.t_w), Q(1, 2)))
        t_wL == Z(this_pulse.t_r)
        t_wR == Z(this_pulse.t_r)
        x_L == RSub(Z(this_pulse.x_c), RMul(Z(this_pulse.x_w), Q(1, 2)))
        x_R == RAdd(Z(this_pulse.x_c), RMul(Z(this_pulse.x_w), Q(1, 2)))
        x_wL == Z(this_pulse.x_r)
        x_wR == Z(this_pulse.x_r)
        envelope_t == get_envelope(t_wL, t_wR, t_L, t_R, Z(current_time))
        envelope_x == [j \in 1..Len(self.xax) |->
                         get_envelope(x_wL, x_wR, x_L, x_R, Z(self.xax[j]))]
    IN  Ok([j \in 1..Len(self.xax) |->
              RMul(RMul(RMul(RMul(envelope_t, envelope_x[j]), Z(Abs(kk))),
                        Z(this_pulse.a0)),
                   sin(kk * self.xax[j] - (ww + dw) * current_time))])

\* ---------------------------------------------------------------- dispersion table
\* The number of wavenumbers np.linspace(0.2, 0.4, 128) samples.
NumKlds == 128
\* The count both constructors pass to get_complex_frequency_table.
TableCount == 128

\* klds[i], i = 1..NumKlds: 0.2 + (i - 1) * 0.2 / (NumKlds - 1).
Kld(i) == Q(NumKlds - 1 + (i - 1), 5 * (NumKlds - 1))

\* get_roots_to_electrostatic_dispersion(1.0, 1.0, kld), a deterministic
\* root finder: sv names the dispersion curve it follows and, for a solver
\* that breaks its contract, the sample where it returns a non-finite value
\* ("nan") or does not converge and raises ("raise").
Solve(sv, kld) ==
    LET re == IF sv.kind = "lin" THEN RAdd(One, kld) ELSE RAdd(One, RMul(Z(3), kld))
        im == IF sv.kind = "lin" THEN RNeg(kld) ELSE RSub(Q(1, 5), RMul(Z(2), kld))
        hit == sv.fault # "none" /\ kld = Kld(sv.at)
    IN  IF hit /\ sv.fault = "raise" THEN [ok |-> FALSE, re |-> Zero, im |-> Zero]
        ELSE IF hit THEN [ok |-> TRUE, re |-> NonFinite, im |-> NonFinite]
        ELSE [ok |-> TRUE, re |-> re, im |-> im]

Min(S) == CHOOSE x \in S : \A y \in S : x <= y

\* def get_complex_frequency_table(num).  klds always has NumKlds entries,
\* wrs and wis have num; iteration i calls the solver and then stores into
\* wrs[i], wis[i], which raises IndexError when i is past num.  calls is
\* the number of solver invocations made.
get_complex_frequency_table(sv, num) ==
    LET stops == {i \in 1..NumKlds : ~Solve(sv, Kld(i)).ok \/ i > num}
    IN  IF stops # {}
        THEN [ok |-> FALSE, wrs |-> << >>, wis |-> << >>, klds |-> << >>,
              calls |-> Min(stops)]
        ELSE [ok |-> TRUE,
              wrs |-> [i \in 1..num |-> IF i <= NumKlds THEN Solve(sv, Kld(i)).re ELSE Zero],
              wis |-> [i \in 1..num |-> IF i <= NumKlds THEN Solve(sv, Kld(i)).im ELSE Zero],
              klds |-> [i \in 1..NumKlds |-> Kld(i)],
              calls |-> NumKlds]

\* interp with numpy's default ends: fp[0] below the range, fp[-1] above.
interp1_DefaultEnds(x, xp, fp, left, right) ==
    IF RLt(x, xp[1]) THEN fp[1]
    ELSE IF RLt(xp[Len(xp)], x) THEN fp[Len(fp)]
    ELSE LET below == Cardinality({j \in 1..Len(xp) : RLe(xp[j], x)})
             lo == IF below > Len(xp) - 1 THEN Len(xp) - 1 ELSE below
         IN  RAdd(fp[lo], RMul(RDiv(RSub(x, xp[lo]), RSub(xp[lo + 1], xp[lo])),
                               RSub(fp[lo + 1], fp[lo])))

\* jnp.interp(x, xp, fp, left, right) at one point x: piecewise linear
\* inside [xp[0], xp[-1]], left below it and right above it.
interp1(x, xp, fp, left, right) ==
    LET below == Cardinality({j \in 1..Len(xp) : RLe(xp[j], x)})
        lo == IF below < 1 THEN 1 ELSE IF below > Len(xp) - 1 THEN Len(xp) - 1 ELSE below
        f == RAdd(fp[lo], RMul(RDiv(RSub(x, xp[lo]), RSub(xp[lo + 1], xp[lo])),
                               RSub(fp[lo + 1], fp[lo])))
    IN  IF RLt(x, xp[1]) THEN left
        ELSE IF RLt(xp[Len(xp)], x) THEN right
        ELSE f

interp(x, xp, fp, left, right) == [j \in 1..Len(x) |-> interp1(x[j], xp, fp, left, right)]

\* VelocityStepper.__init__(kx, kxr, physics).  The object has the fields
\* kx, wis and wr_corr; kxr and physics are the arguments it was built from.
VelocityStepper_init(sv, kx, kxr, physics) ==
    LET t == get_complex_frequency_table(sv, TableCount)
        wrs == interp(kxr, t.klds, t.wrs, Zero, t.wrs[Len(t.wrs)])
    IN  IF ~t.ok
        THEN [status |-> "failed", kx |-> << >>, wis |-> << >>, wr_corr |-> << >>,
              physics |-> physics]
        ELSE [status |-> "built",
              kx |-> kx,
              wr_corr |-> IF physics.kinetic_real_wepw
                          THEN [j \in 1..Len(kxr) |->
                                  RDiv(wrs[j],
                                       RSqrt(RAdd(One, RMul(Z(3), RMul(kxr[j], kxr[j])))))]
                          ELSE Const(One, Len(kxr)),
              wis |-> IF physics.landau_damping
                      THEN interp(kxr, t.klds, t.wis, Zero, t.wis[Len(t.wis)])
                      ELSE Const(Zero, Len(kxr)),
              physics |-> physics]

\* ParticleTrapper.__init__ with the VelocityStepper's ends: right=wis[-1].
ParticleTrapper_init_RightLast(sv, kxr, kx) ==
    LET t == get_complex_frequency_table(sv, TableCount)
    IN  IF ~t.ok
        THEN [status |-> "failed", kxr |-> << >>, kx |-> << >>, wis |-> << >>]
        ELSE [status |-> "built", kxr |-> kxr, kx |-> kx,
              wis |-> interp(kxr, t.klds, t.wis, Zero, t.wis[Len(t.wis)])]

\* ParticleTrapper.__init__(kxr, kx)
ParticleTrapper_init(sv, kxr, kx) ==
    LET t == get_complex_frequency_table(sv, TableCount)
    IN  IF ~t.ok
        THEN [status |-> "failed", kxr |-> << >>, kx |-> << >>, wis |-> << >>]
        ELSE [status |-> "built", kxr |-> kxr, kx |-> kx,
              wis |-> interp(kxr, t.klds, t.wis, Zero, Zero)]

\* ---------------------------------------------------------------- inputs
\* The wavenumbers of an N-point grid of length 2 pi in FFT order:
\* 0, 1, ..., -2, -1 (jnp.fft.fftfreq(N) * N).
KxGrid(N) == [j \in 1..N |-> Z(IF j - 1 < (N + 1) \div 2 THEN j - 1 ELSE j - 1 - N)]

\* 1 / kx with the k = 0 mode pinned to zero.
OneOverKx(kx) == [j \in 1..Len(kx) |-> IF kx[j] = Zero THEN Zero ELSE RDiv(One, kx[j])]

\* Filter wavenumbers below, inside and above the tabulated range
\* [0.2, 0.4]; each makes 1 + 3 k^2 the square of a rational.
KxrValues == <<Zero, Q(3, 13), Q(4, 11), One>>
KxrGrid(off, len) == [j \in 1..len |-> KxrValues[((j - 1 + off) % 4) + 1]]

\* Field arrays of a given length.  On a grid whose transform is exact the
\* fields vary over the grid; on any other grid they are constants.
Field(name, len) ==
    CASE name = "zero" -> Const(Zero, len)
      [] name = "one"  -> Const(One, len)
      [] name = "two"  -> Const(Z(2), len)
      [] name = "wave" -> IF len = 4 THEN <<Z(0), Z(1), Z(0), Z(-1)>>
                          ELSE IF len = 2 THEN <<Z(1), Z(-1)>>
                          ELSE Const(Z(-1), len)
      [] OTHER         -> IF len \in {2, 4} THEN [j \in 1..len |-> Z(j)]
                          ELSE Const(Z(3), len)

\* The field snapshots the orchestrator passes; the first is the
\* stationary equilibrium.  Density is nowhere zero.
Shapes ==
    << [n |-> "one", u |-> "zero", p |-> "one", q |-> "zero", delta |-> "zero", e |-> "zero"],
       [n |-> "one", u |-> "wave", p |-> "ramp", q |-> "one", delta |-> "zero", e |-> "wave"],
       [n |-> "one", u |-> "wave", p |-> "ramp", q |-> "one", delta |-> "ramp", e |-> "wave"],
       [n |-> "ramp", u |-> "ramp", p |-> "wave", q |-> "wave", delta |-> "wave", e |-> "ramp"],
       [n |-> "two", u |-> "one", p |-> "two", q |-> "two", delta |-> "one", e |-> "one"] >>

Snapshot(i, len) == [f \in DOMAIN Shapes[i] |-> Ok(Field(Shapes[i][f], len))]

\* Pulse descriptors: a regular pulse, one of zero duration, one of zero
\* width, and one with other carrier and rise scales.
Pulses ==
    << [k0 |-> 1, w0 |-> 1, dw0 |-> 0, a0 |-> 2, t_c |-> 2, t_w |-> 2, t_r |-> 1,
        x_c |-> 1, x_w |-> 2, x_r |-> 1],
       [k0 |-> 1, w0 |-> 1, dw0 |-> 0, a0 |-> 2, t_c |-> 2, t_w |-> 0, t_r |-> 1,
        x_c |-> 1, x_w |-> 2, x_r |-> 1],
       [k0 |-> 1, w0 |-> 1, dw0 |-> 0, a0 |-> 2, t_c |-> 2, t_w |-> 2, t_r |-> 1,
        x_c |-> 1, x_w |-> 0, x_r |-> 1],
       [k0 |-> -2, w0 |-> 1, dw0 |-> 1, a0 |-> 1, t_c |-> 0, t_w |-> 3, t_r |-> 2,
        x_c |-> 2, x_w |-> 4, x_r |-> 3] >>
Times == {0, 1, 3}

\* The counts get_complex_frequency_table is called with.
Counts == {1, NumKlds - 1, NumKlds, NumKlds + 1}

GoodSolvers == {[kind |-> k, fault |-> "none", at |-> 1] : k \in {"lin", "steep"}}
FaultySolvers ==
    {[kind |-> "lin", fault |-> f, at |-> a] : f \in {"nan", "raise"}, a \in {1, NumKlds}}

\* ---------------------------------------------------------------- state
VARIABLES
    solver,     \* the dispersion solver the program is linked with
    kx, kxr,    \* the orchestrator's wavenumber grids
    density,    \* DensityStepper: [kx]
    energy,     \* EnergyStepper: [kx, gamma]
    poisson,    \* PoissonSolver: [one_over_kx]
    driver,     \* Driver: [xax]
    velocity,   \* VelocityStepper: status and [kx, wis, wr_corr]
    trapper,    \* ParticleTrapper: status and [kxr, wis, kx]
    pc,         \* the orchestrator's position
    ret,        \* the call that last returned: operation, arguments, result
    tab,        \* what get_complex_frequency_table last returned
    invoked     \* solver invocations made by the last operation

vars == <<solver, kx, kxr, density, energy, poisson, driver, velocity, trapper,
          pc, ret, tab, invoked>>
objects == <<density, energy, poisson, driver, velocity, trapper>>

NoPhysics == [kinetic_real_wepw |-> FALSE, landau_damping |-> FALSE]
NoVelocity == [status |-> "none", kx |-> << >>, wis |-> << >>, wr_corr |-> << >>,
               physics |-> NoPhysics]
NoTrapper == [status |-> "none", kxr |-> << >>, kx |-> << >>, wis |-> << >>]
NoRet == [op |-> "none", a |-> 0, b |-> 0, out |-> Err]
NoTab == [ok |-> FALSE, wrs |-> << >>, wis |-> << >>, klds |-> << >>, calls |-> 0]

\* The half-spectrum length of an N-point grid.
HalfLen(N) == (N \div 2) + 1

\* The state once the orchestrator has built its grids and the objects
\* whose constructors only store their arguments (Driver, PoissonSolver,
\* DensityStepper, EnergyStepper: lines 31-33, 58-60, 81-83, 130-133).
Setup(sv, N, off, lr) ==
    /\ solver = sv
    /\ kx = KxGrid(N)
    /\ kxr = KxrGrid(off, lr)
    /\ density = [kx |-> KxGrid(N)]
    /\ energy = [kx |-> KxGrid(N), gamma |-> Z(3)]
    /\ poisson = [one_over_kx |-> OneOverKx(KxGrid(N))]
    /\ driver = [xax |-> [j \in 1..N |-> j - 1]]
    /\ velocity = NoVelocity
    /\ trapper = NoTrapper
    /\ pc = "new"
    /\ ret = NoRet
    /\ tab = NoTab
    /\ invoked = 0

Grids(sv) ==
    \E N \in 2..MaxN, off \in {0, 2} :
        \E lr \in {1, HalfLen(N), HalfLen(N) + 1} : Setup(sv, N, off, lr)

Init == \E sv \in GoodSolvers : Grids(sv)
InitFault == \E sv \in FaultySolvers : Grids(sv)

\* ---------------------------------------------------------------- construction
ConstructVelocity ==
    /\ pc = "new"
    /\ \E kin \in BOOLEAN, ld \in BOOLEAN :
          velocity' = VelocityStepper_init(solver, kx, kxr,
                          [kinetic_real_wepw |-> kin, landau_damping |-> ld])
    /\ invoked' = get_complex_frequency_table(solver, TableCount).calls
    /\ pc' = IF velocity'.status = "built" THEN "velocity" ELSE "failed"
    /\ UNCHANGED <<solver, kx, kxr, density, energy, poisson, driver, trapper, ret, tab>>

ConstructTrapper ==
    /\ pc = "velocity"
    /\ trapper' = ParticleTrapper_init(solver, kxr, kx)
    /\ invoked' = get_complex_frequency_table(solver, TableCount).calls
    /\ pc' = IF trapper'.status = "built" THEN "built" ELSE "failed"
    /\ UNCHANGED <<solver, kx, kxr, density, energy, poisson, driver, velocity, ret, tab>>

\* ---------------------------------------------------------------- calls
\* A call that stores 1j * kx * ... back: the object's kx comes out negated.
AfterCall_StoresKx(self) ==
    [f \in DOMAIN self |-> IF f = "kx" THEN [j \in 1..Len(self.kx) |-> RNeg(self.kx[j])]
                           ELSE self[f]]

\* A call reads the object it is made on and assigns to none of its fields:
\* equinox modules are frozen and no __call__ of this file assigns to self.
AfterCall(self) == self
\* The steppers, the driver and the Poisson solver never call the solver.
InvokedByCall == 0

Result(op, a, b) ==
    LET s == Snapshot(a, b)
    IN  CASE op = "density"  -> DensityStepper_call(density, s.n, s.u)
          [] op = "velocity" -> VelocityStepper_call(velocity, s.n, s.u, s.p, s.q, s.delta)
          [] op = "energy"   -> EnergyStepper_call(energy, s.n, s.u, s.p, s.q)
          [] op = "trapper"  -> ParticleTrapper_call(trapper, s.e, s.delta)
          [] op = "poisson"  -> PoissonSolver_call(poisson, s.u)
          [] op = "driver"   -> Driver_call(driver, Pulses[a], b)
          [] OTHER           -> Err

Returned(op, a, b) ==
    /\ pc = "idle"
    /\ ret' = [op |-> op, a |-> a, b |-> b, out |-> Result(op, a, b)]
    /\ invoked' = InvokedByCall
    /\ pc' = "returned"
    /\ UNCHANGED <<solver, kx, kxr, tab>>

CallDensity ==
    /\ \E i \in DOMAIN Shapes, len \in 1..MaxN : Returned("density", i, len)
    /\ density' = AfterCall(density)
    /\ UNCHANGED <<energy, poisson, driver, velocity, trapper>>

CallVelocity ==
    /\ \E i \in DOMAIN Shapes, len \in 1..MaxN : Returned("velocity", i, len)
    /\ velocity' = AfterCall(velocity)
    /\ UNCHANGED <<density, energy, poisson, driver, trapper>>

CallEnergy ==
    /\ \E i \in DOMAIN Shapes, len \in 1..MaxN : Returned("energy", i, len)
    /\ energy' = AfterCall(energy)
    /\ UNCHANGED <<density, poisson, driver, velocity, trapper>>

CallTrapper ==
    /\ \E i \in DOMAIN Shapes, len \in 1..MaxN : Returned("trapper", i, len)
    /\ trapper' = AfterCall(trapper)
    /\ UNCHANGED <<density, energy, poisson, driver, velocity>>

CallPoisson ==
    /\ \E i \in DOMAIN Shapes, len \in 1..MaxN : Returned("poisson", i, len)
    /\ poisson' = AfterCall(poisson)
    /\ UNCHANGED <<density, energy, driver, velocity, trapper>>

CallDriver ==
    /\ \E i \in DOMAIN Pulses, t \in Times : Returned("driver", i, t)
    /\ driver' = AfterCall(driver)
    /\ UNCHANGED <<density, energy, poisson, velocity, trapper>>

\* A direct call of get_complex_frequency_table(num).
CallTable ==
    /\ pc = "idle"
    /\ \E num \in Counts :
          /\ tab' = get_complex_frequency_table(solver, num)
          /\ ret' = [op |-> "table", a |-> num, b |-> 0, out |-> Err]
    /\ invoked' = tab'.calls
    /\ pc' = "returned"
    /\ UNCHANGED <<solver, kx, kxr, objects>>

\* The orchestrator takes the result (the built objects, a call's array)
\* and goes on to the next call.
Return ==
    /\ pc \in {"built", "returned"}
    /\ pc' = "idle"
    /\ ret' = NoRet
    /\ tab' = NoTab
    /\ invoked' = 0
    /\ UNCHANGED <<solver, kx, kxr, objects>>

Next ==
    \/ ConstructVelocity
    \/ ConstructTrapper
    \/ CallDensity
    \/ CallVelocity
    \/ CallEnergy
    \/ CallTrapper
    \/ CallPoisson
    \/ CallDriver
    \/ CallTable
    \/ Return

Spec == Init /\ [][Next]_vars
SpecFault == InitFault /\ [][Next]_vars

\* ---------------------------------------------------------------- claims
Steppers == {"density", "velocity", "energy", "trapper"}
CallOps == Steppers \cup {"poisson", "driver"}
\* The filter grid has the half-spectrum length of the spatial grid.
Matched == Len(kxr) = HalfLen(Len(kx))
\* A stepper has returned from a call with fields of the grid's length.
OnGrid == pc = "returned" /\ ret.op \in Steppers /\ ret.b = Len(kx)
\* The ends of the tabulated range, 0.2 and 0.4.
KLo == Kld(1)
KHi == Kld(NumKlds)
Outside(k) == RLt(k, KLo) \/ RLt(KHi, k)

\* C1: on every grid of N >= 2 points, even or odd, with a filter grid of
\* N div 2 + 1 entries, each of the four steppers called with fields of
\* length N returns an array of length exactly N.
C1_StepperReturnsGridLength ==
    (OnGrid /\ Matched) => (ret.out.ok /\ Len(ret.out.v) = Len(kx))

\* -u * gradient(u) - gradient(p_over_m) / n - q_over_m_times_e
EulerRHS(s) ==
    ASub(ASub(AMul(ANeg(s.u), gradient(s.u, Ok(kx))), ADiv(gradient(s.p, Ok(kx)), s.n)),
         s.q)

\* C2: a VelocityStepper built with both physics flags off has wr_corr all
\* ones and wis all zero, of kxr's length, and every call of it returns the
\* plain Euler right-hand side, whatever delta and the table are.
C2_FlagsOffIsEuler ==
    (velocity.status = "built" /\ velocity.physics = NoPhysics) =>
        /\ velocity.wr_corr = Const(One, Len(kxr))
        /\ velocity.wis = Const(Zero, Len(kxr))
        /\ (OnGrid /\ Matched /\ ret.op = "velocity") =>
               ret.out = EulerRHS(Snapshot(ret.a, ret.b))

\* C3: get_complex_frequency_table(num) returns, for every num >= 1, three
\* arrays of one length whose entries i are the real and imaginary part of
\* the solver's root at wavenumber entry i.
C3_TableArraysAligned ==
    (pc = "returned" /\ ret.op = "table") =>
        /\ tab.ok
        /\ Len(tab.wrs) = Len(tab.klds)
        /\ Len(tab.wis) = Len(tab.klds)
        /\ \A i \in 1..Len(tab.klds) :
              /\ tab.wrs[i] = Solve(solver, tab.klds[i]).re
              /\ tab.wis[i] = Solve(solver, tab.klds[i]).im

\* C4: with a solver that fails to converge or returns a non-finite value
\* at a sampled wavenumber, neither a VelocityStepper nor a ParticleTrapper
\* comes to exist.
C4_FaultySolverNoStepper ==
    solver.fault # "none" => (velocity.status # "built" /\ trapper.status # "built")

\* C5: a filter grid whose length is not len(kx) div 2 + 1 makes both
\* constructors fail, and a field whose length is not len(kx) makes a
\* stepper call fail.
C5_MismatchFails ==
    /\ velocity.status = "built" => Matched
    /\ trapper.status = "built" => Matched
    /\ (pc = "returned" /\ ret.op \in Steppers /\ ret.b # Len(kx)) => ~ret.out.ok

\* n = 1, u = 0, p_over_m = 1, q_over_m_times_e = 0, delta = 0, e = 0.
Equilibrium(len) ==
    [n |-> Ok(Const(One, len)), u |-> Ok(Const(Zero, len)), p |-> Ok(Const(One, len)),
     q |-> Ok(Const(Zero, len)), delta |-> Ok(Const(Zero, len)), e |-> Ok(Const(Zero, len))]
AtEquilibrium ==
    /\ OnGrid /\ Matched
    /\ Len(kx) % 2 = 0
    /\ Snapshot(ret.a, ret.b) = Equilibrium(ret.b)
    /\ velocity.physics = NoPhysics

\* C6: in the stationary equilibrium on an even grid, with both physics
\* flags off, each of the four steppers returns the all-zero array.
C6_EquilibriumIsStationary == AtEquilibrium => ret.out = Ok(Const(Zero, Len(kx)))
C6_Witness == AtEquilibrium /\ ret.op = "velocity" /\ Len(kx) = 4

\* The root the solver returns at the first and at the last tabulated
\* wavenumber.
FirstRoot == Solve(solver, KLo)
LastRoot == Solve(solver, KHi)
Thermal(k) == RSqrt(RAdd(One, RMul(Z(3), RMul(k, k))))

\* C7 as stated: the enabled VelocityStepper filters clamp to the boundary
\* table values, the first tabulated value below 0.2 and the last one above
\* 0.4.
C7_ClampsToBoundaryValues ==
    velocity.status = "built" =>
        \A j \in 1..Len(kxr) :
            /\ (velocity.physics.landau_damping /\ RLt(kxr[j], KLo)) =>
                   velocity.wis[j] = FirstRoot.im
            /\ (velocity.physics.landau_damping /\ RLt(KHi, kxr[j])) =>
                   velocity.wis[j] = LastRoot.im
            /\ (velocity.physics.kinetic_real_wepw /\ RLt(kxr[j], KLo)) =>
                   velocity.wr_corr[j] = RDiv(FirstRoot.re, Thermal(kxr[j]))
            /\ (velocity.physics.kinetic_real_wepw /\ RLt(KHi, kxr[j])) =>
                   velocity.wr_corr[j] = RDiv(LastRoot.re, Thermal(kxr[j]))

\* C7 amended: the enabled VelocityStepper filters interpolate to 0.0 below
\* 0.2 and to the last tabulated value above 0.4; the ParticleTrapper
\* filter is 0.0 on both sides.
C7_LeftZeroRightLast ==
    /\ velocity.status = "built" =>
        \A j \in 1..Len(kxr) :
            /\ (velocity.physics.landau_damping /\ RLt(kxr[j], KLo)) =>
                   velocity.wis[j] = Zero
            /\ (velocity.physics.landau_damping /\ RLt(KHi, kxr[j])) =>
                   velocity.wis[j] = LastRoot.im
            /\ (velocity.physics.kinetic_real_wepw /\ RLt(kxr[j], KLo)) =>
                   velocity.wr_corr[j] = Zero
            /\ (velocity.physics.kinetic_real_wepw /\ RLt(KHi, kxr[j])) =>
                   velocity.wr_corr[j] = RDiv(LastRoot.re, Thermal(kxr[j]))
    /\ trapper.status = "built" =>
        \A j \in 1..Len(kxr) : Outside(kxr[j]) => trapper.wis[j] = Zero
C7_Witness ==
    /\ velocity.status = "built" /\ trapper.status = "built"
    /\ velocity.physics.landau_damping /\ velocity.physics.kinetic_real_wepw
    /\ \E j \in 1..Len(kxr) : RLt(kxr[j], KLo)
    /\ \E j \in 1..Len(kxr) : RLt(KHi, kxr[j]) /\ velocity.wis[j] # Zero

\* The field e of the ParticleTrapper call that returned, its half
\* spectrum and the forcing term of that call.
TrapField == Snapshot(ret.a, ret.b).e
TrapForce == trap_forcing_term(trapper, TrapField)
\* A ParticleTrapper call on a field of two points or more whose half
\* spectrum has the filter's length.
TrapCalled ==
    /\ pc = "returned" /\ ret.op = "trapper"
    /\ ret.b >= 2
    /\ Len(rfft(TrapField).v) = Len(kxr)
\* The spectrum of e is supported on wavenumbers outside [0.2, 0.4].
SupportOutside ==
    \A j \in 1..Len(kxr) : rfft(TrapField).v[j] # CZero => Outside(kxr[j])

\* C8: the ParticleTrapper filter is 0.0 at every kxr entry below 0.2 or
\* above 0.4, for every table; so the forcing term 100 |irfft(rfft(e) wis)|
\* is nowhere negative, and is zero for a field e whose spectrum is
\* supported outside [0.2, 0.4].
C8_TrapFilterZeroOutside ==
    /\ trapper.status = "built" =>
        \A j \in 1..Len(kxr) : Outside(trapper.kxr[j]) => trapper.wis[j] = Zero
    /\ TrapCalled =>
        /\ TrapForce.ok
        /\ \A j \in 1..Len(TrapForce.v) : RLe(Zero, TrapForce.v[j])
        /\ SupportOutside => AllZero(TrapForce.v)
C8_Witness ==
    /\ TrapCalled /\ SupportOutside
    /\ ~AllZero(TrapField.v)
    /\ \E j \in 1..Len(kxr) : ~Outside(kxr[j]) /\ trapper.wis[j] # Zero

\* C9: once the objects are built, calls of the steppers, the driver and
\* the Poisson solver change no stored array and invoke the solver never,
\* and the call that returned would return the same again.
C9_CallsAreRepeatable ==
    (pc = "returned" /\ ret.op \in CallOps) =>
        (invoked = 0 /\ ret.out = Result(ret.op, ret.a, ret.b))
C9_ObjectsFrozen == pc \in {"idle", "returned"} => objects' = objects
C9_CallsArePure == [](C9_CallsAreRepeatable) /\ [][C9_ObjectsFrozen]_vars
C9_Witness ==
    /\ pc = "returned" /\ ret.op = "velocity" /\ ret.out.ok
    /\ velocity.physics.landau_damping /\ velocity.physics.kinetic_real_wepw
    /\ ~AllZero(ret.out.v)

\* The pulse of the Driver call that returned.
DrivePulse == Pulses[ret.a]
Degenerate ==
    /\ pc = "returned" /\ ret.op = "driver"
    /\ DrivePulse.t_w = 0 \/ DrivePulse.x_w = 0
    /\ DrivePulse.t_r # 0 /\ DrivePulse.x_r # 0

\* C10: a pulse with t_w = 0 or x_w = 0 and nonzero rise scales has the
\* envelope 0, and Driver.__call__ returns the all-zero array at every time.
C10_DegeneratePulseIsZero == Degenerate => ret.out = Ok(Const(Zero, Len(driver.xax)))
C10_Witness == Degenerate /\ DrivePulse.t_w = 0 /\ ret.b = 1

====
